---- MODULE Spec2Model ----
(***************************************************************************)
(* GoProTimestampExtractor (src/extract_timestamps.py).                    *)
(*                                                                         *)
(* Representation:                                                         *)
(*   - a character is its Unicode code point, a file name (a str) the      *)
(*     sequence of its code points; Chars writes one from ASCII            *)
(*     characters;                                                         *)
(*   - a datetime is <<day, second, microsecond>>: the days since        *)
(*     0001-01-01 (datetime.min, day 0; 9999-12-31 is day MaxDay), the     *)
(*     second of the day and the microsecond of the second; a timedelta    *)
(*     is an integer number of microseconds;                               *)
(*   - a float is [cls, ticks]: cls "finite" with the integer ticks = d    *)
(*     for the float d / 2^21 (exactly representable, about 0.477          *)
(*     microseconds apart as seconds), so that the rounding                *)
(*     datetime.timedelta performs (to the nearest microsecond, ties to    *)
(*     even) is visible and exact, the finite durations covered being      *)
(*     those below 1024 s in magnitude; cls "nan" for NaN; cls "out" for   *)
(*     a float timedelta cannot hold (an infinity, or a magnitude beyond   *)
(*     999999999 days such as -1e14), ticks then being its sign;           *)
(*   - the text of a duration field is <<form, ticks>>: form "decimal"     *)
(*     for a decimal numeral in range, "nan", "out" for a numeral float()  *)
(*     reads as an infinity or beyond timedelta's range, and any other     *)
(*     form for text that is no numeral (such as 'N/A');                   *)
(*   - the text of a creation_time tag is <<day, hour, minute, second,     *)
(*     fraction>>, the fields as written (a day outside 0..MaxDay stands   *)
(*     for a date part that names no date), or any other sequence for      *)
(*     text that has not the shape of the format;                          *)
(*   - a call that ends with an exception gives the exception's name in    *)
(*     the field raised (the empty string when it returns);                *)
(*   - Python's None in an integer position is the value None below,       *)
(*     an optional datetime is the empty or the one-element sequence;      *)
(*   - a dict (insertion ordered) is a sequence of <<key, value>> pairs.   *)
(***************************************************************************)
EXTENDS Integers, Sequences, FiniteSets, TLC

VARIABLES
    pc,              \* position of the run / of the function under study
    directory,       \* the files on disk: [name, folder, probe]
    recursive,       \* args.recursive
    out_file,        \* args.output given
    mp4_files,       \* result of list_mp4_files_in_dir
    files_metadata,  \* the records built so far by get_file_metadata
    grouped_files,   \* result of group_files_by_session
    final_results,   \* process_videos.final_results
    out_written,     \* whether the output file has been written
    filename,        \* argument of parse_filename
    parsed,          \* result of parse_filename
    session_files,   \* argument of process_files_in_session
    session_results  \* result of process_files_in_session

vars == <<pc, directory, recursive, out_file, mp4_files, files_metadata,
          grouped_files, final_results, out_written, filename, parsed,
          session_files, session_results>>

\* ------------------------------------------------------------------ bounds
MaxFiles == 3        \* records in one call of the reconstructor / grouper
MaxChapter == 1      \* chapter indices 0..MaxChapter in those records
MaxDirFiles == 2     \* files in the scanned directory

\* --------------------------------------------------------------- constants
None == -1           \* Python's None where an index is expected (indices are >= 0)
UsecPerSec == 1000000
TicksPerSec == 2097152   \* 2^21: finite float ticks d stand for d / 2^21 seconds

\* ------------------------------------------------------------- parse_filename
\* the printable ASCII characters, from code point 32 on (the double quote,
\* the backslash and the backquote, which no name here uses, are left empty)
Ascii ==
    <<" ", "!", "", "#", "$", "%", "&", "'", "(", ")", "*", "+", ",", "-", ".", "/",
      "0", "1", "2", "3", "4", "5", "6", "7", "8", "9", ":", ";", "<", "=", ">", "?",
      "@", "A", "B", "C", "D", "E", "F", "G", "H", "I", "J", "K", "L", "M", "N", "O",
      "P", "Q", "R", "S", "T", "U", "V", "W", "X", "Y", "Z", "[", "", "]", "^", "_",
      "", "a", "b", "c", "d", "e", "f", "g", "h", "i", "j", "k", "l", "m", "n", "o",
      "p", "q", "r", "s", "t", "u", "v", "w", "x", "y", "z", "{", "|", "}", "~">>

\* ord(c) of an ASCII character
Ord(c) == 31 + CHOOSE k \in 1..Len(Ascii) : Ascii[k] = c

\* the str made of the ASCII characters cs
Chars(cs) == [i \in 1..Len(cs) |-> Ord(cs[i])]

\* the literal parts of the pattern, and the range A-Z
GX == Chars(<<"G", "X">>)
DotMP4 == Chars(<<".", "M", "P", "4">>)
UpperCase == Ord("A")..Ord("Z")

\* the code points of the digits zero of Unicode (general category Nd,
\* Unicode 14): each is followed by its digits one to nine. A str pattern's
\* \d matches them all, and int() converts them all.
DecimalZeros ==
    {48, 1632, 1776, 1984, 2406, 2534, 2662, 2790, 2918, 3046, 3174, 3302,
     3430, 3558, 3664, 3792, 3872, 4160, 4240, 6112, 6160, 6470, 6608, 6784,
     6800, 6992, 7088, 7232, 7248, 42528, 43216, 43264, 43472, 43504, 43600,
     44016, 65296, 66720, 68912, 69734, 69872, 69942, 70096, 70384, 70736,
     70864, 71248, 71360, 71472, 71904, 72016, 72784, 73040, 73120, 92768,
     92864, 93008, 120782, 120792, 120802, 120812, 120822, 123200, 123632,
     125264, 130032}

\* \d
IsDigit(c) == \E z \in DecimalZeros : z <= c /\ c <= z + 9

\* the value int() gives the digit c
DigitVal(c) == c - (CHOOSE z \in DecimalZeros : z <= c /\ c <= z + 9)

\* int("...") of a sequence of decimal digits
RECURSIVE IntOf(_)
IntOf(ds) ==
    IF ds = <<>> THEN 0
    ELSE 10 * IntOf(SubSeq(ds, 1, Len(ds) - 1)) + DigitVal(ds[Len(ds)])

\* variant: a pattern starting with [A-Z]{2}
PrefixAnyUpper(a, b) ==
    /\ a \in UpperCase
    /\ b \in UpperCase

\* the two letters the pattern starts with: the literal GX
PrefixMatches(a, b) == a = GX[1] /\ b = GX[2]

\* r'GX(\d{2})(\d{4})\.MP4' matched at offset i of s
MatchesAt(s, i) ==
    /\ i + 11 <= Len(s)
    /\ PrefixMatches(s[i], s[i + 1])
    /\ \A k \in 2..7 : IsDigit(s[i + k])
    /\ SubSeq(s, i + 8, i + 11) = DotMP4

\* the offsets re.search tries: every one
SearchOffsets(s) == 1..Len(s)

\* re.search: the leftmost match, or none
ReSearch(s) ==
    LET hits == {i \in SearchOffsets(s) : MatchesAt(s, i)}
    IN  IF hits = {} THEN 0
        ELSE CHOOSE i \in hits : \A j \in hits : i <= j

parse_filename(s) ==
    LET m == ReSearch(s)
    IN  IF m # 0
        THEN <<IntOf(SubSeq(s, m + 2, m + 3)), IntOf(SubSeq(s, m + 4, m + 7))>>
        ELSE <<None, None>>

\* str.endswith('.MP4')
EndsWithMP4(s) ==
    /\ Len(s) >= 4
    /\ SubSeq(s, Len(s) - 3, Len(s)) = DotMP4

\* ---------------------------------------------------- specification SpecParse
\* parse_filename applied to one file name
ParseLetters ==
    {Chars(<<"G", "X">>), Chars(<<"A", "B">>), Chars(<<"G", "P">>),
     Chars(<<"g", "x">>)}
\* the digits 0 (48) and 7 (55), and the Arabic-Indic digit three (U+0663)
ParseDigits == UNION {[1..n -> {48, 55, 1635}] : n \in 5..7}
ParseExts ==
    {Chars(<<".", "M", "P", "4">>), Chars(<<".", "m", "p", "4">>),
     Chars(<<"x", "M", "P", "4">>)}
ParseExtras == {<<>>, Chars(<<"A">>)}

PipelineIdle ==
    /\ directory = <<>>
    /\ recursive = FALSE
    /\ out_file = FALSE
    /\ mp4_files = <<>>
    /\ final_results = <<>>
    /\ out_written = FALSE

ParseIdle == filename = <<>> /\ parsed = <<>>

SessionIdle == session_files = <<>> /\ session_results = <<>>

GroupIdle == files_metadata = <<>> /\ grouped_files = <<>>

InitParse ==
    /\ pc = "call"
    /\ \E pre \in ParseExtras, l \in ParseLetters, d \in ParseDigits,
          e \in ParseExts, suf \in ParseExtras :
          filename = pre \o l \o d \o e \o suf
    /\ parsed = <<>>
    /\ PipelineIdle
    /\ GroupIdle
    /\ SessionIdle

ParseFilename ==
    /\ pc = "call"
    /\ parsed' = parse_filename(filename)
    /\ pc' = "done"
    /\ UNCHANGED <<directory, recursive, out_file, mp4_files, files_metadata,
                   grouped_files, final_results, out_written, filename,
                   session_files, session_results>>

NextParse == ParseFilename

SpecParse == InitParse /\ [][NextParse]_vars

\* s is exactly: two letters, 2 digits, 4 digits, ".MP4"
IsExactName(s) ==
    /\ Len(s) = 12
    /\ \A k \in 3..8 : IsDigit(s[k])
    /\ SubSeq(s, 9, 12) = DotMP4

IsExactGXName(s) == IsExactName(s) /\ SubSeq(s, 1, 2) = GX

IsExactUpperName(s) ==
    /\ IsExactName(s)
    /\ \A k \in 1..2 : s[k] \in UpperCase

DigitGroups(s) == <<IntOf(SubSeq(s, 3, 4)), IntOf(SubSeq(s, 5, 8))>>

\* C4 (as stated): parse_filename returns the two digit groups for exactly
\* the strings 'GX' + 2 digits + 4 digits + '.MP4' and (None, None) for
\* every other string, extra leading or trailing characters included.
C4_ExactPatternOnly ==
    pc = "done" =>
        parsed = IF IsExactGXName(filename)
                 THEN DigitGroups(filename)
                 ELSE <<None, None>>

\* C5 (as stated): every name made of any two uppercase letters, 2 digits,
\* 4 digits and '.MP4' is accepted and yields its two digit groups.
C5_AnyUpperPrefixAccepted ==
    (pc = "done" /\ IsExactUpperName(filename)) =>
        parsed = DigitGroups(filename)

\* C5 (amended): of the names made of two uppercase letters, 2 digits,
\* 4 digits and '.MP4', parse_filename accepts those whose letters are 'GX',
\* returning the two digit groups as integers, and returns (None, None) for
\* those with any other two letters.
C5_OnlyGXPrefixAccepted ==
    (pc = "done" /\ IsExactUpperName(filename)) =>
        parsed = IF IsExactGXName(filename)
                 THEN DigitGroups(filename)
                 ELSE <<None, None>>

C5_Witness ==
    /\ pc = "done"
    /\ IsExactGXName(filename)
    /\ filename[4] = 1635
    /\ parsed = <<73, 707>>

\* -------------------------------------------------------- datetime arithmetic
\* floats
Finite(d) == [cls |-> "finite", ticks |-> d]
NaN == [cls |-> "nan", ticks |-> 0]
NegOut == [cls |-> "out", ticks |-> -1]

\* the exception datetime.timedelta(seconds=x) ends with, "" when it returns:
\* ValueError for NaN ("cannot convert float NaN to integer"), OverflowError
\* for an infinity or a magnitude beyond 999999999 days
TimeDeltaRaises(x) ==
    IF x.cls = "nan" THEN "ValueError"
    ELSE IF x.cls = "out" THEN "OverflowError"
    ELSE ""

\* datetime.timedelta(seconds=d / 2^21) for a finite x: the exact value d * 15625 / 32768
\* microseconds rounded to the nearest microsecond, ties to the even one
\* (whole seconds and 32768ths are split off to stay within 32 bits)
TimeDelta(x) ==
    LET d == x.ticks
        m == d % TicksPerSec
        num == (m % 32768) * 15625
        whole == (d \div TicksPerSec) * UsecPerSec + (m \div 32768) * 15625
                 + num \div 32768
        r == num % 32768
    IN  IF 2 * r < 32768 THEN whole
        ELSE IF 2 * r > 32768 THEN whole + 1
        ELSE IF whole % 2 = 0 THEN whole ELSE whole + 1

\* variant: a timedelta that takes a negative duration for zero
TimeDeltaClamped(x) == IF x.ticks <= 0 THEN 0 ELSE TimeDelta(x)

\* the day number of datetime.max (9999-12-31)
MaxDay == 3652058

\* datetime + timedelta, before the range check: the microseconds carried
\* into the seconds, the seconds into the days
DatetimeAdd(t, td) ==
    LET us == t[3] + td
        secs == t[2] + us \div UsecPerSec
    IN  <<t[1] + secs \div 86400, secs % 86400, us % UsecPerSec>>

\* datetime + timedelta raises OverflowError ("date value out of range")
\* when the sum lies outside datetime.min .. datetime.max
InRange(t) == 0 <= t[1] /\ t[1] <= MaxDay

\* str(timedelta): days, hours, minutes, seconds, microseconds (normalised:
\* only the days are negative)
StrTimeDelta(td) ==
    LET secs == td \div UsecPerSec
        day == secs \div 86400
        rest == secs % 86400
    IN  <<day, rest \div 3600, (rest \div 60) % 60, rest % 60, td % UsecPerSec>>

\* ------------------------------------------------- process_files_in_session
\* variant: x placed before the elements whose key equals its own (a sort
\* that reverses ties)
InsertByChapterBeforeTies(s, x) ==
    LET k == Cardinality({i \in 1..Len(s) : s[i].chapter < x.chapter})
    IN  SubSeq(s, 1, k) \o <<x>> \o SubSeq(s, k + 1, Len(s))

\* one step of sorted(): x placed after the elements whose key is <= its own
InsertByChapter(s, x) ==
    LET k == Cardinality({i \in 1..Len(s) : s[i].chapter <= x.chapter})
    IN  SubSeq(s, 1, k) \o <<x>> \o SubSeq(s, k + 1, Len(s))

RECURSIVE SortedFrom(_, _, _)
SortedFrom(files, i, acc) ==
    IF i > Len(files) THEN acc
    ELSE SortedFrom(files, i + 1, InsertByChapter(acc, files[i]))

\* variant: the records taken in input order
Unsorted(files) == files

\* sorted(files, key=lambda x: x['chapter']): stable
SortedByChapter(files) == SortedFrom(files, 1, <<>>)

\* sorted() compares keys; a None key compared with anything raises TypeError
SortRaises(files) ==
    /\ Len(files) >= 2
    /\ \E i \in 1..Len(files) : files[i].chapter = None

\* variant: every entry starts at its own record's creation time
OwnCreationTime(start_time, prev_duration, file_meta) ==
    file_meta.creation_time

\* lines 135-138: the start time of the next entry
NextStartTime(start_time, prev_duration, file_meta) ==
    IF start_time = <<>>
    THEN file_meta.creation_time
    ELSE DatetimeAdd(start_time[1], TimeDelta(prev_duration))

\* variant: a stop time that never precedes the start
StopTimeValidated(start, duration) ==
    DatetimeAdd(start, TimeDeltaClamped(duration))

\* line 140
StopTime(start, duration) == DatetimeAdd(start, TimeDelta(duration))

\* variant: the chapter and the session written to each other's column
MakeEntrySwapped(file_meta, start, stop) ==
    [Filename |-> file_meta.file,
     StartTime |-> start,
     StopTime |-> stop,
     Duration |-> StrTimeDelta(TimeDelta(file_meta.duration)),
     Chapter |-> file_meta.session,
     Session |-> file_meta.chapter,
     Folder |-> file_meta.folder]

\* lines 143-151
MakeEntry(file_meta, start, stop) ==
    [Filename |-> file_meta.file,
     StartTime |-> start,
     StopTime |-> stop,
     Duration |-> StrTimeDelta(TimeDelta(file_meta.duration)),
     Chapter |-> file_meta.chapter,
     Session |-> file_meta.session,
     Folder |-> file_meta.folder]

\* the loop of lines 134-151 from the i-th sorted record on. The timedelta
\* of line 138 is that of the previous record, which line 140 has already
\* built; timedelta(...) of line 140 raises for a NaN or out-of-range
\* duration before the addition; the additions of lines 138 and 140 raise
\* OverflowError when their sum is out of datetime's range
RECURSIVE SessionLoop(_, _, _, _, _)
SessionLoop(sorted_files, i, start_time, prev_duration, results) ==
    IF i > Len(sorted_files) THEN [raised |-> "", returned |-> results]
    ELSE LET file_meta == sorted_files[i]
             start == NextStartTime(start_time, prev_duration, file_meta)
             stop == StopTime(start, file_meta.duration)
         IN  IF ~InRange(start)
             THEN [raised |-> "OverflowError", returned |-> <<>>]
             ELSE IF TimeDeltaRaises(file_meta.duration) # ""
             THEN [raised |-> TimeDeltaRaises(file_meta.duration),
                   returned |-> <<>>]
             ELSE IF ~InRange(stop)
             THEN [raised |-> "OverflowError", returned |-> <<>>]
             ELSE SessionLoop(sorted_files, i + 1, <<start>>, file_meta.duration,
                              Append(results, MakeEntry(file_meta, start, stop)))

\* the list returned, or the exception that ends the call: TypeError from
\* sorted() (line 130), OverflowError or ValueError from the loop
process_files_in_session(files) ==
    IF SortRaises(files) THEN [raised |-> "TypeError", returned |-> <<>>]
    ELSE SessionLoop(SortedByChapter(files), 1, <<>>, Finite(0), <<>>)

\* -------------------------------------------------- specification SpecSession
\* process_files_in_session applied to one list of records
\* 0001-01-01 00:00:00.000001 (one microsecond after datetime.min) and
\* 2024-01-01 00:01:00
SessionTimes == {<<0, 0, 1>>, <<738885, 60, 0>>}
\* about -1.43 us, -0.48 us (a zero timedelta) and 7812.5 us (a tie, rounded
\* to 7812 us); NaN and a negative float out of timedelta's range
SessionDurations == {Finite(-3), Finite(-1), Finite(16384), NaN, NegOut}

\* the i-th record of the input is file GX<cc>000<i>.MP4 of session i
SessionName(c, i) ==
    GX \o <<48, 48 + c, 48, 48, 48, 48 + i>> \o DotMP4

SessionRecords == (0..MaxChapter) \X SessionTimes \X SessionDurations

\* the input made of the choices f[1], ..., f[n] of SessionRecords
SessionInput(n, f) ==
    [i \in 1..n |->
        [file |-> SessionName(f[i][1], i),
         creation_time |-> f[i][2],
         duration |-> f[i][3],
         chapter |-> f[i][1],
         session |-> i,
         folder |-> IF i % 2 = 1 THEN "." ELSE "sub"]]

InitSession ==
    /\ pc = "call"
    /\ \E n \in 0..MaxFiles :
          \E f \in [1..n -> SessionRecords] :
             /\ \A i, j \in 1..n :
                   (f[i][3].cls # "finite" /\ f[j][3].cls # "finite") => i = j
             /\ session_files = SessionInput(n, f)
    /\ session_results = <<>>
    /\ PipelineIdle
    /\ GroupIdle
    /\ ParseIdle

ProcessFilesInSession ==
    /\ pc = "call"
    /\ LET r == process_files_in_session(session_files)
       IN  /\ session_results' = r.returned
           /\ pc' = IF r.raised = "" THEN "done" ELSE r.raised
    /\ UNCHANGED <<directory, recursive, out_file, mp4_files, files_metadata,
                   grouped_files, final_results, out_written, filename, parsed,
                   session_files>>

NextSession == ProcessFilesInSession

SpecSession == InitSession /\ [][NextSession]_vars

\* the position in the input of the record an entry was made from (the file
\* names of an input of SessionInput are pairwise different)
InputPos(entry) ==
    CHOOSE i \in 1..Len(session_files) : session_files[i].file = entry.Filename

\* the record an entry was made from
RecordOf(entry) == session_files[InputPos(entry)]

\* datetime a < datetime b
Before(a, b) ==
    \/ a[1] < b[1]
    \/ (a[1] = b[1] /\ a[2] < b[2])
    \/ (a[1] = b[1] /\ a[2] = b[2] /\ a[3] < b[3])

\* the timedeltas of the first k records of a list, added up
RECURSIVE SumDeltas(_, _)
SumDeltas(files, k) ==
    IF k = 0 THEN 0
    ELSE SumDeltas(files, k - 1) + TimeDelta(files[k].duration)

\* the record, counted in chapter order, at which the call stops with an
\* exception (0 when it returns): the first whose duration timedelta
\* refuses, or whose stop time (the creation time of the record that sorts
\* first plus the durations up to it) is out of datetime's range
FirstStop ==
    LET sorted == SortedByChapter(session_files)
        stops == {k \in 1..Len(sorted) :
                     \/ sorted[k].duration.cls # "finite"
                     \/ ~InRange(DatetimeAdd(sorted[1].creation_time,
                                             SumDeltas(sorted, k)))}
    IN  IF stops = {} THEN 0
        ELSE CHOOSE k \in stops : \A j \in stops : k <= j

\* C1: in the entries returned for a session of n >= 2 records, taken in the
\* order emitted, every entry's stop time is the next entry's start time,
\* whatever the creation times of the records.
C1_TimelineChained ==
    pc = "done" =>
        \A k \in 1..(Len(session_results) - 1) :
            session_results[k].StopTime = session_results[k + 1].StartTime

C1_Witness ==
    /\ pc = "done"
    /\ Len(session_results) = 3
    /\ session_files[1].creation_time # session_files[2].creation_time
    /\ session_files[2].creation_time # session_files[3].creation_time
    /\ \A i \in 1..3 : session_files[i].duration = Finite(16384)
    /\ session_results[3].StartTime
          = DatetimeAdd(session_results[1].StartTime, 15624)

\* C2: the first entry returned starts at the creation time of the record that sorts
\* first (lowest chapter index; among equals the first of the input), which
\* need not be the first record of the input nor the earliest creation time.
C2_FirstStartIsFirstChapterTime ==
    (pc = "done" /\ Len(session_files) >= 1) =>
        LET n == Len(session_files)
            low == CHOOSE i \in 1..n :
                     \A j \in 1..n :
                        \/ session_files[i].chapter < session_files[j].chapter
                        \/ (session_files[i].chapter = session_files[j].chapter
                            /\ i <= j)
        IN  session_results[1].StartTime = session_files[low].creation_time

C2_Witness ==
    /\ pc = "done"
    /\ Len(session_files) = 2
    /\ session_files[1].chapter > session_files[2].chapter
    /\ Before(session_files[1].creation_time, session_files[2].creation_time)
    /\ session_results[1].StartTime = session_files[2].creation_time
    /\ session_results[1].StartTime # session_files[1].creation_time

\* C8: the list returned has one entry per input record, none dropped or
\* duplicated, in ascending chapter order whatever the input order, each
\* with its record's file name, chapter, session and folder.
C8_OneEntryPerRecord ==
    pc = "done" =>
        /\ Len(session_results) = Len(session_files)
        /\ \A i \in 1..Len(session_files) :
              \E k \in 1..Len(session_results) :
                 /\ session_results[k].Filename = session_files[i].file
                 /\ session_results[k].Chapter = session_files[i].chapter
                 /\ session_results[k].Session = session_files[i].session
                 /\ session_results[k].Folder = session_files[i].folder
                 /\ \A l \in 1..Len(session_results) :
                       session_results[l].Filename = session_files[i].file
                           => l = k
        /\ \A k \in 1..(Len(session_results) - 1) :
              session_results[k].Chapter <= session_results[k + 1].Chapter

C8_Witness ==
    /\ pc = "done"
    /\ Len(session_files) = 3
    /\ session_files[1].chapter = 1
    /\ session_files[2].chapter = 0
    /\ session_files[3].chapter = 1
    /\ session_results[1].Filename = session_files[2].file
    /\ session_results[1].Folder = "sub"

\* C9 (as stated): a session with a record of negative duration raises no
\* error; every such record gets an entry whose stop time is earlier than
\* its start time, and that stop time is the start time of the next entry.
C9_NegativeDurationStopsEarlier ==
    /\ (pc # "call" /\ \E i \in 1..Len(session_files) :
                          /\ session_files[i].duration.cls # "nan"
                          /\ session_files[i].duration.ticks < 0) => pc = "done"
    /\ pc = "done" =>
          \A k \in 1..Len(session_results) :
              RecordOf(session_results[k]).duration.ticks < 0 =>
                  /\ Before(session_results[k].StopTime,
                            session_results[k].StartTime)
                  /\ k < Len(session_results) =>
                        session_results[k + 1].StartTime
                            = session_results[k].StopTime

\* C9 (amended): durations are not validated. The call stops at the first
\* record, in chapter order, whose duration timedelta refuses (ValueError
\* for NaN, OverflowError for an infinity or a magnitude beyond timedelta's
\* range) or whose stop time leaves datetime's range (OverflowError), and
\* returns when there is none. When it returns, a record whose duration is
\* negative has an entry whose stop time is not later than its start time,
\* and earlier when the duration is below minus half a microsecond (a
\* negative duration of less than half a microsecond is rounded to a zero
\* timedelta: stop = start); that stop time is the start time of the next
\* entry. A finite duration d is d * 15625 / 32768 microseconds.
C9_NegativeDurationPropagated ==
    /\ pc # "call" =>
          LET sorted == SortedByChapter(session_files)
          IN  pc = IF FirstStop = 0 THEN "done"
                   ELSE IF sorted[FirstStop].duration.cls = "nan"
                        THEN "ValueError"
                        ELSE "OverflowError"
    /\ pc = "done" =>
          \A k \in 1..Len(session_results) :
              LET d == RecordOf(session_results[k]).duration.ticks
                  start == session_results[k].StartTime
                  stop == session_results[k].StopTime
              IN  d < 0 =>
                    /\ ~Before(start, stop)
                    /\ 2 * d * 15625 < -32768 => Before(stop, start)
                    /\ 2 * d * 15625 > -32768 => stop = start
                    /\ k < Len(session_results) =>
                          session_results[k + 1].StartTime = stop

C9_Witness ==
    /\ pc = "done"
    /\ Len(session_results) = 2
    /\ RecordOf(session_results[1]).duration = Finite(-3)
    /\ session_results[1].StartTime = <<738885, 60, 0>>
    /\ session_results[1].StopTime = <<738885, 59, 999999>>
    /\ session_results[2].StartTime = session_results[1].StopTime

\* C10: in the list returned, records that share a chapter index are emitted in the order they had
\* in the input and are chained like any other consecutive pair: the later
\* one starts where the earlier one stops, and every entry starts at the
\* previous entry's start plus the previous record's duration.
C10_DuplicateChaptersStable ==
    pc = "done" =>
        /\ \A k, l \in 1..Len(session_results) :
              (k < l /\ session_results[k].Chapter = session_results[l].Chapter)
                  => InputPos(session_results[k]) < InputPos(session_results[l])
        /\ \A k \in 1..(Len(session_results) - 1) :
              /\ session_results[k + 1].StartTime = session_results[k].StopTime
              /\ session_results[k + 1].StartTime =
                    DatetimeAdd(session_results[k].StartTime,
                                TimeDelta(RecordOf(session_results[k]).duration))

C10_Witness ==
    /\ pc = "done"
    /\ Len(session_files) = 3
    /\ session_files[1].chapter = 1
    /\ session_files[2].chapter = 0
    /\ session_files[3].chapter = 0
    /\ \A i \in 1..3 : session_files[i].duration = Finite(16384)
    /\ session_results[1].Filename = session_files[2].file
    /\ session_results[2].Filename = session_files[3].file
    /\ session_results[3].StartTime
          = DatetimeAdd(session_files[2].creation_time, 15624)

\* --------------------------------------------------- group_files_by_session
\* variant: a key with the microseconds kept ("%Y-%m-%d %H:%M:%S.%f")
StrftimeMicros(t) ==
    <<t[1], t[2] \div 3600, (t[2] \div 60) % 60, t[2] % 60, t[3]>>

\* creation_time.strftime("%Y-%m-%d %H:%M:%S"): the date (as a day number),
\* the hour, the minute and the second; the microseconds are not printed
Strftime(t) == <<t[1], t[2] \div 3600, (t[2] \div 60) % 60, t[2] % 60>>

\* key in grouped_files
HasKey(grouped, key) == \E g \in 1..Len(grouped) : grouped[g][1] = key

\* grouped_files[key].append(file_meta), the key created when missing
AppendToKey(grouped, key, file_meta) ==
    LET with_key == IF HasKey(grouped, key) THEN grouped
                    ELSE Append(grouped, <<key, <<>>>>)
    IN  [g \in 1..Len(with_key) |->
            IF with_key[g][1] = key
            THEN <<key, Append(with_key[g][2], file_meta)>>
            ELSE with_key[g]]

\* the loop of lines 122-126 from the i-th record on
RECURSIVE GroupFrom(_, _, _)
GroupFrom(files, i, grouped) ==
    IF i > Len(files) THEN grouped
    ELSE GroupFrom(files, i + 1,
                   AppendToKey(grouped, Strftime(files[i].creation_time), files[i]))

group_files_by_session(files) == GroupFrom(files, 1, <<>>)

\* ---------------------------------------------------- specification SpecGroup
\* group_files_by_session applied to one list of records
\* 2024-01-01 00:00:00, 00:00:00.999999 and 00:00:01, and 2024-01-02 00:00:00
GroupTimes ==
    {<<738885, 0, 0>>, <<738885, 0, 999999>>, <<738885, 1, 0>>, <<738886, 0, 0>>}

GroupRecords == {0, 1} \X GroupTimes \X {1, 2}

\* the input made of the choices f[1], ..., f[n] of GroupRecords
GroupInput(n, f) ==
    [i \in 1..n |->
        [file |-> SessionName(f[i][1], i),
         creation_time |-> f[i][2],
         duration |-> Finite(3),
         chapter |-> f[i][1],
         session |-> f[i][3],
         folder |-> IF i % 2 = 1 THEN "." ELSE "sub"]]

InitGroup ==
    /\ pc = "call"
    /\ \E n \in 0..MaxFiles :
          \E f \in [1..n -> GroupRecords] : files_metadata = GroupInput(n, f)
    /\ grouped_files = <<>>
    /\ PipelineIdle
    /\ ParseIdle
    /\ SessionIdle

GroupFilesBySession ==
    /\ pc = "call"
    /\ grouped_files' = group_files_by_session(files_metadata)
    /\ pc' = "done"
    /\ UNCHANGED <<directory, recursive, out_file, mp4_files, files_metadata,
                   final_results, out_written, filename, parsed,
                   session_files, session_results>>

NextGroup == GroupFilesBySession

SpecGroup == InitGroup /\ [][NextGroup]_vars

\* the places <<g, k>> of grouped_files that hold the i-th input record
PlacesOf(i) ==
    {p \in {<<g, k>> : g \in 1..Len(grouped_files), k \in 1..MaxFiles + 1} :
        /\ p[2] <= Len(grouped_files[p[1]][2])
        /\ grouped_files[p[1]][2][p[2]] = files_metadata[i]}

\* C6: the groups partition the input (every record in exactly one group,
\* once; nothing in a group that was not in the input), and two records
\* share a group exactly when their creation times are equal once the
\* sub-second part is dropped, whatever their session, chapter or folder.
C6_GroupsPartitionBySecond ==
    pc = "done" =>
        LET n == Len(files_metadata)
        IN  /\ \A i \in 1..n : Cardinality(PlacesOf(i)) = 1
            /\ \A g \in 1..Len(grouped_files) :
                  /\ grouped_files[g][2] # <<>>
                  /\ \A k \in 1..Len(grouped_files[g][2]) :
                        \E i \in 1..n : grouped_files[g][2][k] = files_metadata[i]
            /\ \A i, j \in 1..n :
                  (\E p \in PlacesOf(i), q \in PlacesOf(j) : p[1] = q[1])
                  <=> (/\ files_metadata[i].creation_time[1]
                             = files_metadata[j].creation_time[1]
                       /\ files_metadata[i].creation_time[2]
                             = files_metadata[j].creation_time[2])

C6_Witness ==
    /\ pc = "done"
    /\ Len(files_metadata) = 3
    /\ files_metadata[1].creation_time = <<738885, 0, 999999>>
    /\ files_metadata[2].creation_time = <<738885, 1, 0>>
    /\ files_metadata[3].creation_time = <<738885, 0, 0>>
    /\ files_metadata[1].session # files_metadata[3].session
    /\ Len(grouped_files) = 2
    /\ Len(grouped_files[1][2]) = 2
    /\ grouped_files[1][2][2] = files_metadata[3]

\* ------------------------------------------------------------ the metadata probe
\* the texts datetime.strptime(s, "%Y-%m-%dT%H:%M:%S.%fZ") makes a datetime
\* of: the shape of the format, a date of the calendar, hour 0..23, minute
\* 0..59, second 0..59 (the format's %S also matches 60 and 61, which the
\* datetime constructor then refuses), a fraction of up to six digits
TagIsDatetime(tag) ==
    /\ Len(tag) = 5
    /\ 0 <= tag[1] /\ tag[1] <= MaxDay
    /\ 0 <= tag[2] /\ tag[2] <= 23
    /\ 0 <= tag[3] /\ tag[3] <= 59
    /\ 0 <= tag[4] /\ tag[4] <= 59
    /\ 0 <= tag[5] /\ tag[5] <= 999999

\* line 84: the datetime, or ValueError
Strptime(tag) ==
    IF TagIsDatetime(tag)
    THEN [raised |-> "",
          value |-> <<tag[1], tag[2] * 3600 + tag[3] * 60 + tag[4], tag[5]>>]
    ELSE [raised |-> "ValueError", value |-> <<0, 0, 0>>]

\* the texts float() reads
TextIsFloat(text) == text[1] \in {"decimal", "nan", "out"}

\* line 85: float(text), or ValueError ("could not convert string to float")
Float(text) ==
    IF ~TextIsFloat(text) THEN [raised |-> "ValueError", value |-> NaN]
    ELSE [raised |-> "",
          value |-> IF text[1] = "decimal" THEN Finite(text[2])
                    ELSE IF text[1] = "nan" THEN NaN
                    ELSE [cls |-> "out", ticks |-> text[2]]]

\* variant: a probe that hides its failures behind default values
ProbeOrDefault(probe) ==
    IF /\ probe.kind = "ok"
       /\ TagIsDatetime(probe.creation_time)
       /\ TextIsFloat(probe.duration)
    THEN [raised |-> "",
          creation_time |-> Strptime(probe.creation_time).value,
          duration |-> Float(probe.duration).value]
    ELSE [raised |-> "", creation_time |-> <<0, 0, 0>>, duration |-> Finite(0)]

\* lines 82-86 in order: ffmpeg.probe raising (line 82), the creation_time
\* tag missing (KeyError, line 83), strptime refusing it (ValueError, line
\* 84), the duration missing (KeyError) or refused by float() (ValueError,
\* line 85) end the call with that exception; otherwise the parsed creation
\* time and the float duration are returned
get_creation_time_and_duration(probe) ==
    LET failed(e) == [raised |-> e, creation_time |-> <<0, 0, 0>>,
                      duration |-> Finite(0)]
    IN  IF probe.kind = "raise" THEN failed("Error")
        ELSE IF probe.kind = "no_creation_time" THEN failed("KeyError")
        ELSE IF Strptime(probe.creation_time).raised # ""
        THEN failed(Strptime(probe.creation_time).raised)
        ELSE IF probe.kind = "no_duration" THEN failed("KeyError")
        ELSE IF Float(probe.duration).raised # ""
        THEN failed(Float(probe.duration).raised)
        ELSE [raised |-> "",
              creation_time |-> Strptime(probe.creation_time).value,
              duration |-> Float(probe.duration).value]

\* ------------------------------------------------------ list_mp4_files_in_dir
InFolder(dir, folder) == SelectSeq(dir, LAMBDA f : f.folder = folder)

\* os.walk(directory): the files of the root, then those of the subfolder
Walk(dir) == InFolder(dir, ".") \o InFolder(dir, "sub")

\* os.listdir(directory) restricted to the regular files
ListDirFiles(dir) == InFolder(dir, ".")

list_mp4_files_in_dir(dir, rec) ==
    IF rec
    THEN SelectSeq(Walk(dir),
                   LAMBDA f : /\ EndsWithMP4(f.name)
                              /\ parse_filename(f.name)[1] # None
                              /\ parse_filename(f.name)[2] # None)
    ELSE SelectSeq(ListDirFiles(dir), LAMBDA f : EndsWithMP4(f.name))

\* lines 109-117: the record of a probed file
FileMetadata(f, probed) ==
    [file |-> f.name,
     creation_time |-> probed.creation_time,
     duration |-> probed.duration,
     chapter |-> parse_filename(f.name)[1],
     session |-> parse_filename(f.name)[2],
     folder |-> f.folder]

\* the loop of lines 52-55 from the g-th session on: final_results as the
\* loop leaves it, and the exception of process_files_in_session that ended
\* it, if any (the entries of the sessions before it are already in
\* final_results, the sessions after it are not processed)
RECURSIVE SessionsLoop(_, _, _)
SessionsLoop(grouped, g, final) ==
    IF g > Len(grouped) THEN [raised |-> "", final_results |-> final]
    ELSE LET r == process_files_in_session(grouped[g][2])
         IN  IF r.raised # ""
             THEN [raised |-> r.raised, final_results |-> final]
             ELSE SessionsLoop(grouped, g + 1, final \o r.returned)

\* ------------------------------------------------------- specification Spec
\* one run of main(): process_videos on a directory, then the output
DirNames ==
    {Chars(<<"G", "X", "0", "1", "0", "0", "0", "1", ".", "M", "P", "4">>),
     Chars(<<"G", "X", "0", "2", "0", "0", "0", "1", ".", "M", "P", "4">>),
     Chars(<<"n", "o", "t", "e", "s", ".", "M", "P", "4">>),
     Chars(<<"G", "X", "0", "3", "0", "0", "0", "1", ".", "m", "p", "4">>)}

\* probes: 2024-01-01 00:00:01.25 lasting 1.43 us; one microsecond after
\* datetime.min lasting -1.43 us; the tool raising; a tag or the duration
\* missing; a tag with second 60; a duration that is no numeral
DirProbes ==
    {[kind |-> "ok", creation_time |-> <<738885, 0, 0, 1, 250000>>,
      duration |-> <<"decimal", 3>>],
     [kind |-> "ok", creation_time |-> <<0, 0, 0, 0, 1>>,
      duration |-> <<"decimal", -3>>],
     [kind |-> "raise", creation_time |-> <<>>, duration |-> <<"", 0>>],
     [kind |-> "no_creation_time", creation_time |-> <<>>,
      duration |-> <<"decimal", 3>>],
     [kind |-> "no_duration", creation_time |-> <<738885, 0, 0, 1, 250000>>,
      duration |-> <<"", 0>>],
     [kind |-> "ok", creation_time |-> <<738885, 0, 0, 60, 0>>,
      duration |-> <<"decimal", 3>>],
     [kind |-> "ok", creation_time |-> <<738885, 0, 0, 1, 250000>>,
      duration |-> <<"N/A", 0>>]}

DirFiles == [name : DirNames, folder : {".", "sub"}, probe : DirProbes]

\* no two files of a directory have the same path
DistinctPaths(d) ==
    \A i, j \in 1..Len(d) :
        (d[i].name = d[j].name /\ d[i].folder = d[j].folder) => i = j

Init ==
    /\ pc = "start"
    /\ \E n \in 0..MaxDirFiles :
          \E d \in [1..n -> DirFiles] : DistinctPaths(d) /\ directory = d
    /\ recursive \in BOOLEAN
    /\ out_file \in BOOLEAN
    /\ mp4_files = <<>>
    /\ final_results = <<>>
    /\ out_written = FALSE
    /\ GroupIdle
    /\ ParseIdle
    /\ SessionIdle

\* line 107: the listing get_file_metadata iterates over
ListFiles ==
    /\ pc = "start"
    /\ mp4_files' = list_mp4_files_in_dir(directory, recursive)
    /\ pc' = "probe"
    /\ UNCHANGED <<directory, recursive, out_file, files_metadata, grouped_files,
                   final_results, out_written, filename, parsed, session_files,
                   session_results>>

\* lines 107-117: one iteration of get_file_metadata's loop; an exception of
\* the probe leaves process_videos and main
ProbeFile ==
    /\ pc = "probe"
    /\ Len(files_metadata) < Len(mp4_files)
    /\ LET f == mp4_files[Len(files_metadata) + 1]
           probed == get_creation_time_and_duration(f.probe)
       IN  IF probed.raised # ""
           THEN /\ pc' = "probe_raised"
                /\ UNCHANGED files_metadata
           ELSE /\ files_metadata' = Append(files_metadata, FileMetadata(f, probed))
                /\ UNCHANGED pc
    /\ UNCHANGED <<directory, recursive, out_file, mp4_files, grouped_files,
                   final_results, out_written, filename, parsed, session_files,
                   session_results>>

\* line 50
GroupFiles ==
    /\ pc = "probe"
    /\ Len(files_metadata) = Len(mp4_files)
    /\ grouped_files' = group_files_by_session(files_metadata)
    /\ pc' = "process"
    /\ UNCHANGED <<directory, recursive, out_file, mp4_files, files_metadata,
                   final_results, out_written, filename, parsed, session_files,
                   session_results>>

\* lines 52-57: the sessions reconstructed in the order of the keys; an
\* exception of process_files_in_session (TypeError from sorted(),
\* OverflowError or ValueError from the datetime arithmetic) leaves
\* process_videos and main
ProcessSessions ==
    /\ pc = "process"
    /\ LET r == SessionsLoop(grouped_files, 1, final_results)
       IN  /\ final_results' = r.final_results
           /\ pc' = IF r.raised = "" THEN "output" ELSE "process_raised"
    /\ UNCHANGED <<directory, recursive, out_file, mp4_files, files_metadata,
                   grouped_files, out_written, filename, parsed, session_files,
                   session_results>>

\* lines 64-70: the CSV written when an output file is given, then the return
WriteCsvAndReturn ==
    /\ pc = "output"
    /\ out_written' = out_file
    /\ pc' = "returned"
    /\ UNCHANGED <<directory, recursive, out_file, mp4_files, files_metadata,
                   grouped_files, final_results, filename, parsed, session_files,
                   session_results>>

\* lines 159-169: main writes the output file, or prints
MainOutput ==
    /\ pc = "returned"
    /\ out_written' = out_file
    /\ pc' = "done"
    /\ UNCHANGED <<directory, recursive, out_file, mp4_files, files_metadata,
                   grouped_files, final_results, filename, parsed, session_files,
                   session_results>>

Next ==
    \/ ListFiles
    \/ ProbeFile
    \/ GroupFiles
    \/ ProcessSessions
    \/ WriteCsvAndReturn
    \/ MainOutput

Spec == Init /\ [][Next]_vars

\* C3 (as stated): in recursive and in non-recursive scans alike, a file
\* whose name parse_filename rejects is never probed and never becomes a
\* record: every record has integer chapter and session indices, and no
\* such file name appears in the results.
C3_OnlyDecodedNamesBecomeRecords ==
    /\ \A i \in 1..Len(files_metadata) :
          /\ files_metadata[i].chapter # None
          /\ files_metadata[i].session # None
          /\ parse_filename(files_metadata[i].file) # <<None, None>>
    /\ \A k \in 1..Len(final_results) :
          parse_filename(final_results[k].Filename) # <<None, None>>

\* the listed files whose probe fails: the tool raises, the creation_time
\* tag or the duration is missing, the tag is not a datetime of the format,
\* or the duration is not a number
FailingProbes ==
    LET listed == list_mp4_files_in_dir(directory, recursive)
    IN  {i \in 1..Len(listed) :
            \/ listed[i].probe.kind # "ok"
            \/ ~TagIsDatetime(listed[i].probe.creation_time)
            \/ ~TextIsFloat(listed[i].probe.duration)}

\* C7: when the probe of a listed file fails (the tool raises, or the
\* creation_time tag or the duration is missing or unreadable), the run is
\* aborted: no record is built for that file or any later one, grouping and
\* reconstruction never start, nothing is returned and no output file is
\* written, even if earlier probes succeeded.
C7_ProbeFailureAbortsRun ==
    FailingProbes # {} =>
        /\ pc \in {"start", "probe", "probe_raised"}
        /\ \A i \in FailingProbes : Len(files_metadata) < i
        /\ grouped_files = <<>>
        /\ final_results = <<>>
        /\ ~out_written

C7_Witness ==
    /\ pc = "probe_raised"
    /\ Len(mp4_files) = 2
    /\ Len(files_metadata) = 1
    /\ mp4_files[2].probe.kind = "no_duration"
    /\ out_file
    /\ ~out_written

====
